---- MODULE Spec2Model ----
(***************************************************************************)
(* homebot: the IP monitor task and the serving loop of main (main.rs),    *)
(* the webhook verification and registration of TelegramBot                *)
(* (telegrambot.rs), and the restart signal (tokio Notify) between them.   *)
(*                                                                         *)
(* The two tasks run on a multi-threaded runtime: every await point, and   *)
(* the call of notify_one, is a step that the other task can interleave    *)
(* with.  Time is abstracted: the 60 s sleep is one step.                  *)
(***************************************************************************)
EXTENDS Integers, FiniteSets, Sequences, TLC

\* ---------------------------------------------------------------- bounds
\* number of monitor ticks explored
MaxTicks == 3
\* number of distinct public addresses the resolver can report (1..NumIPs)
NumIPs == 2
\* longest message text, in atoms (a word or one whitespace character)
MaxTextLen == 3

IPs == 1 .. NumIPs
\* 0 stands for "no address" (Option::None / failed resolution)
NoIp == 0

VARIABLES
    mon_pc,        \* position of the spawned monitor task (main.rs:33-71)
    current_ip,    \* current_ip of the running tick (main.rs:36)
    ticks,         \* number of ticks started
    webhook,       \* the platform's WebhookRegistration (remote state)
    diskGen,       \* generation of the certificate files on disk
    diskIp,        \* address the certificate on disk was generated for
    permit,        \* stored permit of config_changed (tokio Notify)
    waiter,        \* state of the Notified future of the serving loop
    srv_pc,        \* position of the serving loop (main.rs:73-88)
    srvId,         \* identity of the BotServer built last
    startPolled,   \* server.start() of the current BotServer has been polled
    bound,         \* listener instances bound to the configured port
    servedGen,     \* certificate generation the bound listener was built from
    raised,        \* number of notify_one calls
    coalesced,     \* notify_one calls that found a permit already stored
    rebuilds,      \* number of completed server.stop() calls
    sigGen,        \* generation written by the last cycle that raised the signal
    tick,          \* what the running tick has done so far
    prev,          \* what the previous tick did
    built,         \* raises and stored permit when the BotServer was built
    main_result,   \* what main returned ("running" until it returns)
    disp,          \* one inbound message and what handle_message did with it
    acl            \* one peer address and the verdict of the allow-list

vars == << mon_pc, current_ip, ticks, webhook, diskGen, diskIp, permit, waiter,
           srv_pc, srvId, startPolled, bound, servedGen, raised, coalesced,
           rebuilds, sigGen, tick, prev, built, main_result, disp, acl >>

\* the state of main: everything but the inbound message and the peer
mainVars == << mon_pc, current_ip, ticks, webhook, diskGen, diskIp, permit,
               waiter, srv_pc, srvId, startPolled, bound, servedGen, raised,
               coalesced, rebuilds, sigGen, tick, prev, built, main_result >>

monVars == << mon_pc, current_ip, ticks, webhook, diskGen, diskIp, tick, prev >>
srvVars == << srv_pc, srvId, startPolled, bound, servedGen, rebuilds >>

\* ------------------------------------------------------------- the platform
\* Response<Webhook> of getWebhookInfo (spec section 6): ok, ip_address,
\* has_custom_certificate.  sent = FALSE is a transport failure: no answer.
NoAnswer == [sent |-> FALSE, ok |-> FALSE, ip_address |-> NoIp,
             has_custom_certificate |-> FALSE]

\* The answers getWebhookInfo can give when the platform holds registration w:
\* the registration itself, or an error response (ok == false, empty result).
WebhookInfo(w) ==
    { [sent |-> TRUE, ok |-> TRUE, ip_address |-> w.ip_address,
       has_custom_certificate |-> w.has_custom_certificate],
      [sent |-> TRUE, ok |-> FALSE, ip_address |-> NoIp,
       has_custom_certificate |-> FALSE],
      NoAnswer }

\* is_webhook_configured: "true" / "false" for Ok(true) / Ok(false), "err" for
\* Err (the ? on send/text, and the bail! at the end).
is_webhook_configured(resp, ip) ==
    IF ~resp.sent THEN "err"
    ELSE IF resp.ok /\ resp.ip_address # NoIp
         THEN IF resp.ip_address = ip /\ resp.has_custom_certificate
              THEN "true" ELSE "false"
         ELSE "err"

\* Outcomes of the setWebhook request of update_webhook_cert:
\*   accepted  the platform registered the webhook and answered
\*   rejected  the platform answered with an error response (ok == false)
\*   unsent    the request failed before reaching the platform
\*   lost      the platform registered the webhook, the answer was lost
SetWebhookOutcomes == {"accepted", "rejected", "unsent", "lost"}

\* update_webhook_cert: Err only when send() fails; the answer is only logged.
update_webhook_cert(outcome) ==
    IF outcome \in {"unsent", "lost"} THEN "err" ELSE "ok"

\* the registration the platform holds after a setWebhook request
SetWebhook(w, outcome, ip) ==
    IF outcome \in {"accepted", "lost"}
    THEN [ip_address |-> ip, has_custom_certificate |-> TRUE]
    ELSE w

\* ------------------------------------------------------------ tick history
\* what a tick has done: the address resolved before it (last) and in it (ip),
\* the answer and result of the verification, the calls and results of
\* generate_certificate and update_webhook_cert, and whether it raised the
\* signal; n counts the sleeps that were completed before the tick
FreshTick == [n |-> 0, last |-> NoIp, ip |-> NoIp, resolved |-> FALSE, resp |-> NoAnswer,
              verify |-> "none", genCalls |-> 0, gen |-> "none", genId |-> 0,
              regCalls |-> 0, reg |-> "none", outcome |-> "none",
              notified |-> FALSE]

\* no inbound message is being handled, no peer is being checked
NoMessage == [pc |-> "none"]
NoPeer == [pc |-> "none"]

\* ------------------------------------------------------------------- Init
InitMain ==
    /\ mon_pc = "get_ip"
    /\ current_ip = NoIp
    /\ ticks = 0
    /\ webhook \in { [ip_address |-> NoIp, has_custom_certificate |-> FALSE],
                     [ip_address |-> 1, has_custom_certificate |-> TRUE] }
    /\ diskGen = 0
    /\ diskIp = NoIp
    /\ permit = 0
    /\ waiter = "none"
    /\ srv_pc = "new"
    /\ srvId = 0
    /\ startPolled = FALSE
    /\ bound = {}
    /\ servedGen = 0
    /\ raised = 0
    /\ coalesced = 0
    /\ rebuilds = 0
    /\ sigGen = 0
    /\ tick = FreshTick
    /\ prev = FreshTick
    /\ built = [raised |-> 0, pending |-> 0]
    /\ main_result = "running"

Init ==
    /\ InitMain
    /\ disp = NoMessage
    /\ acl = NoPeer

\* main has not returned: the runtime, and with it the monitor task, lives
Running == srv_pc # "exited"

\* ------------------------------------------------------------ monitor task
\* a failed resolution goes on to the verification with the address of the
\* tick before
MonitorGetIp_VerifyAnyway ==
    /\ Running /\ mon_pc = "get_ip" /\ ticks < MaxTicks
    /\ ticks' = ticks + 1
    /\ \E r \in IPs \cup {NoIp} :
         IF r = NoIp
         THEN /\ mon_pc' = "verify"
              /\ UNCHANGED << current_ip, tick >>
         ELSE /\ mon_pc' = "verify"
              /\ current_ip' = r
              /\ tick' = [tick EXCEPT !.ip = r, !.resolved = TRUE]
    /\ UNCHANGED << webhook, diskGen, diskIp, prev, permit, waiter, raised,
                    coalesced, sigGen >>
    /\ UNCHANGED srvVars
    /\ UNCHANGED << built, main_result, disp, acl >>

\* a failed resolution is tried again at once, without the sleep of line 69
MonitorGetIp_NoSleep ==
    /\ Running /\ mon_pc = "get_ip" /\ ticks < MaxTicks
    /\ ticks' = ticks + 1
    /\ \E r \in IPs \cup {NoIp} :
         IF r = NoIp
         THEN /\ mon_pc' = "get_ip"
              /\ UNCHANGED << current_ip, tick >>
         ELSE /\ mon_pc' = "verify"
              /\ current_ip' = r
              /\ tick' = [tick EXCEPT !.ip = r, !.resolved = TRUE]
    /\ UNCHANGED << webhook, diskGen, diskIp, prev, permit, waiter, raised,
                    coalesced, sigGen >>
    /\ UNCHANGED srvVars
    /\ UNCHANGED << built, main_result, disp, acl >>

\* utils::get_ip().await (main.rs:36); on Err the tick goes to the sleep of
\* line 69.
MonitorGetIp ==
    /\ Running /\ mon_pc = "get_ip" /\ ticks < MaxTicks
    /\ ticks' = ticks + 1
    /\ \E r \in IPs \cup {NoIp} :
         IF r = NoIp
         THEN /\ mon_pc' = "sleep"
              /\ UNCHANGED << current_ip, tick >>
         ELSE /\ mon_pc' = "verify"
              /\ current_ip' = r
              /\ tick' = [tick EXCEPT !.ip = r, !.resolved = TRUE]
    /\ UNCHANGED << webhook, diskGen, diskIp, prev, permit, waiter, raised,
                    coalesced,
                    sigGen >>
    /\ UNCHANGED srvVars
    /\ UNCHANGED << built, main_result, disp, acl >>

\* the else branch of main.rs:40-44 falls through to the generation
MonitorVerify_NoSkip ==
    /\ Running /\ mon_pc = "verify"
    /\ \E resp \in WebhookInfo(webhook) :
         LET r == is_webhook_configured(resp, current_ip) IN
         /\ tick' = [tick EXCEPT !.resp = resp, !.verify = r]
         /\ mon_pc' = IF r = "err" THEN "panicked" ELSE "generate"
    /\ UNCHANGED << current_ip, ticks, webhook, diskGen, diskIp, prev, permit,
                    waiter, raised, coalesced, sigGen >>
    /\ UNCHANGED srvVars
    /\ UNCHANGED << built, main_result, disp, acl >>

\* is_webhook_configured(&current_ip).await.unwrap() (main.rs:38-45): Err
\* panics the task, Ok(true) sleeps and continues, Ok(false) goes on.
MonitorVerify ==
    /\ Running /\ mon_pc = "verify"
    /\ \E resp \in WebhookInfo(webhook) :
         LET r == is_webhook_configured(resp, current_ip) IN
         /\ tick' = [tick EXCEPT !.resp = resp, !.verify = r]
         /\ mon_pc' = CASE r = "err"   -> "panicked"
                        [] r = "true"  -> "sleep"
                        [] r = "false" -> "generate"
    /\ UNCHANGED << current_ip, ticks, webhook, diskGen, diskIp, prev, permit,
                    waiter, raised, coalesced, sigGen >>
    /\ UNCHANGED srvVars
    /\ UNCHANGED << built, main_result, disp, acl >>

\* BotServer::generate_certificate(pubkey, privkey, &current_ip) (section 4.2):
\* on success the files hold a new generation bound to the address, on failure
\* they are left untouched.
generate_certificate(ok, gen, ip, addr) ==
    IF ok THEN [res |-> "ok", gen |-> gen + 1, ip |-> addr]
    ELSE [res |-> "fail", gen |-> gen, ip |-> ip]

\* a failed generation is tried again at once, without the sleep
MonitorGenerate_Retry ==
    /\ Running /\ mon_pc = "generate"
    /\ \E ok \in BOOLEAN :
         LET g == generate_certificate(ok, diskGen, diskIp, current_ip) IN
         /\ diskGen' = g.gen
         /\ diskIp' = g.ip
         /\ tick' = [tick EXCEPT !.genCalls = @ + 1, !.gen = g.res,
                                 !.genId = IF g.res = "ok" THEN g.gen ELSE @]
         /\ mon_pc' = IF g.res = "ok" THEN "register" ELSE "generate"
    /\ UNCHANGED << current_ip, ticks, webhook, prev, permit, waiter, raised,
                    coalesced, sigGen >>
    /\ UNCHANGED srvVars
    /\ UNCHANGED << built, main_result, disp, acl >>

\* main.rs:47-54 and 65-67
MonitorGenerate ==
    /\ Running /\ mon_pc = "generate"
    /\ \E ok \in BOOLEAN :
         LET g == generate_certificate(ok, diskGen, diskIp, current_ip) IN
         /\ diskGen' = g.gen
         /\ diskIp' = g.ip
         /\ tick' = [tick EXCEPT !.genCalls = @ + 1, !.gen = g.res,
                                 !.genId = IF g.res = "ok" THEN g.gen ELSE @]
         /\ mon_pc' = IF g.res = "ok" THEN "register" ELSE "sleep"
    /\ UNCHANGED << current_ip, ticks, webhook, prev, permit, waiter, raised,
                    coalesced,
                    sigGen >>
    /\ UNCHANGED srvVars
    /\ UNCHANGED << built, main_result, disp, acl >>

\* the signal is raised whatever update_webhook_cert returned
MonitorRegister_AlwaysNotify ==
    /\ Running /\ mon_pc = "register"
    /\ \E o \in SetWebhookOutcomes :
         LET r == update_webhook_cert(o) IN
         /\ webhook' = SetWebhook(webhook, o, current_ip)
         /\ tick' = [tick EXCEPT !.regCalls = @ + 1, !.reg = r, !.outcome = o]
         /\ mon_pc' = "notify"
    /\ UNCHANGED << current_ip, ticks, diskGen, diskIp, prev, permit, waiter,
                    raised, coalesced, sigGen >>
    /\ UNCHANGED srvVars
    /\ UNCHANGED << built, main_result, disp, acl >>

\* update_webhook_cert(pubkey, &current_ip).await (main.rs:55-61).  The
\* certificate file read by fs::read was written by this task in this tick.
MonitorRegister ==
    /\ Running /\ mon_pc = "register"
    /\ \E o \in SetWebhookOutcomes :
         LET r == update_webhook_cert(o) IN
         /\ webhook' = SetWebhook(webhook, o, current_ip)
         /\ tick' = [tick EXCEPT !.regCalls = @ + 1, !.reg = r, !.outcome = o]
         /\ mon_pc' = IF r = "err" THEN "sleep" ELSE "notify"
    /\ UNCHANGED << current_ip, ticks, diskGen, diskIp, prev, permit, waiter,
                    raised, coalesced,
                    sigGen >>
    /\ UNCHANGED srvVars
    /\ UNCHANGED << built, main_result, disp, acl >>

\* tokio Notify::notify_one on (permit, waiter): a waiting Notified future
\* takes the notification, otherwise one permit is stored (not counted).
notify_one(p, w) ==
    IF w = "waiting" THEN [permit |-> p, waiter |-> "notified"]
    ELSE [permit |-> 1, waiter |-> w]

\* every raise is counted, as by a semaphore or an unbounded channel
MonitorNotify_Counting ==
    /\ Running /\ mon_pc = "notify"
    /\ permit' = IF waiter = "waiting" THEN permit ELSE permit + 1
    /\ waiter' = IF waiter = "waiting" THEN "notified" ELSE waiter
    /\ raised' = raised + 1
    /\ coalesced' = coalesced
    /\ sigGen' = tick.genId
    /\ tick' = [tick EXCEPT !.notified = TRUE]
    /\ mon_pc' = "sleep"
    /\ UNCHANGED << current_ip, ticks, webhook, diskGen, diskIp, prev >>
    /\ UNCHANGED srvVars
    /\ UNCHANGED << built, main_result, disp, acl >>

\* config_changed_clone.notify_one() (main.rs:62-64)
MonitorNotify ==
    /\ Running /\ mon_pc = "notify"
    /\ LET n == notify_one(permit, waiter) IN
         /\ permit' = n.permit
         /\ waiter' = n.waiter
    /\ raised' = raised + 1
    /\ coalesced' = IF waiter # "waiting" /\ permit = 1
                    THEN coalesced + 1 ELSE coalesced
    /\ sigGen' = tick.genId
    /\ tick' = [tick EXCEPT !.notified = TRUE]
    /\ mon_pc' = "sleep"
    /\ UNCHANGED << current_ip, ticks, webhook, diskGen, diskIp, prev >>
    /\ UNCHANGED srvVars
    /\ UNCHANGED << built, main_result, disp, acl >>

\* tokio::time::sleep(IP_CHECK_TIME).await (main.rs:42-43 and 69), then the
\* next iteration of the loop.
MonitorSleep ==
    /\ Running /\ mon_pc = "sleep" /\ ticks < MaxTicks
    /\ mon_pc' = "get_ip"
    /\ prev' = tick
    /\ tick' = [FreshTick EXCEPT
                   !.n = tick.n + 1,
                   !.last = IF tick.resolved THEN tick.ip ELSE tick.last]
    /\ UNCHANGED << current_ip, ticks, webhook, diskGen, diskIp, permit,
                    waiter, raised, coalesced, sigGen >>
    /\ UNCHANGED srvVars
    /\ UNCHANGED << built, main_result, disp, acl >>

\* ------------------------------------------------------------ serving loop
\* the listener of BotServer id is bound to the port while start() runs
\* (section 4.5) and reads the certificate files when it binds (section 6)
start(b, id) == b \cup {id}

\* server.stop(): the listener of BotServer id is no longer bound
stop(b, id) == b \ {id}

\* a signal stored while no select was waiting is dropped with the rebuild
ServerNew_DropsSignal ==
    /\ srv_pc = "new"
    /\ srvId' = srvId + 1
    /\ startPolled' = FALSE
    /\ srv_pc' = "select"
    /\ permit' = 0
    /\ built' = [raised |-> raised, pending |-> 0]
    /\ UNCHANGED << bound, servedGen, rebuilds, waiter, raised, coalesced,
                    sigGen >>
    /\ UNCHANGED monVars
    /\ UNCHANGED << main_result, disp, acl >>

\* let mut server = BotServer::new(..) (main.rs:74)
ServerNew ==
    /\ srv_pc = "new"
    /\ srvId' = srvId + 1
    /\ startPolled' = FALSE
    /\ srv_pc' = "select"
    /\ built' = [raised |-> raised, pending |-> permit]
    /\ UNCHANGED << bound, servedGen, rebuilds, permit, waiter, raised,
                    coalesced,
                    sigGen >>
    /\ UNCHANGED monVars
    /\ UNCHANGED << main_result, disp, acl >>

\* select! polls server.start() (main.rs:80): the listener binds
SelectPollStart ==
    /\ srv_pc = "select" /\ ~startPolled
    /\ startPolled' = TRUE
    /\ bound' = start(bound, srvId)
    /\ servedGen' = diskGen
    /\ UNCHANGED << srv_pc, srvId, rebuilds, permit, waiter, raised,
                    coalesced,
                    sigGen >>
    /\ UNCHANGED monVars
    /\ UNCHANGED << built, main_result, disp, acl >>

\* the restart branch is taken whether or not a permit is stored
SelectPollNotified_Spurious ==
    /\ srv_pc = "select" /\ waiter = "none"
    /\ permit' = 0
    /\ srv_pc' = "stop"
    /\ UNCHANGED << waiter, srvId, startPolled, bound, servedGen, rebuilds,
                    raised, coalesced, sigGen >>
    /\ UNCHANGED monVars
    /\ UNCHANGED << built, main_result, disp, acl >>

\* select! polls config_changed.notified() (main.rs:82): a stored permit is
\* consumed and the branch is taken, otherwise the future waits.
SelectPollNotified ==
    /\ srv_pc = "select" /\ waiter = "none"
    /\ IF permit = 1
       THEN /\ permit' = 0
            /\ srv_pc' = "stop"
            /\ UNCHANGED waiter
       ELSE /\ waiter' = "waiting"
            /\ UNCHANGED << permit, srv_pc >>
    /\ UNCHANGED << srvId, startPolled, bound, servedGen, rebuilds, raised,
                    coalesced,
                    sigGen >>
    /\ UNCHANGED monVars
    /\ UNCHANGED << built, main_result, disp, acl >>

\* the notification is taken and the loop goes on serving
SelectNotified_Ignored ==
    /\ srv_pc = "select" /\ waiter = "notified"
    /\ waiter' = "none"
    /\ UNCHANGED << srv_pc, srvId, startPolled, bound, servedGen, rebuilds,
                    permit, raised, coalesced, sigGen >>
    /\ UNCHANGED monVars
    /\ UNCHANGED << built, main_result, disp, acl >>

\* the waiting Notified future was notified: the branch of main.rs:82 is taken
SelectNotified ==
    /\ srv_pc = "select" /\ waiter = "notified"
    /\ waiter' = "none"
    /\ srv_pc' = "stop"
    /\ UNCHANGED << srvId, startPolled, bound, servedGen, rebuilds, permit,
                    raised, coalesced,
                    sigGen >>
    /\ UNCHANGED monVars
    /\ UNCHANGED << built, main_result, disp, acl >>

\* server.start() terminates by itself: break, main returns Ok(()) whatever
\* start() returned (main.rs:80, 90).
\* The Notified future is dropped; a notification it had taken and not yet
\* delivered goes back to the Notify as a permit.
ServerExits ==
    /\ srv_pc = "select" /\ startPolled
    /\ bound' = stop(bound, srvId)
    /\ srv_pc' = "exited"
    /\ waiter' = "none"
    /\ permit' = IF waiter = "notified" THEN 1 ELSE permit
    /\ main_result' = "Ok"
    /\ UNCHANGED << srvId, startPolled, servedGen, rebuilds, raised,
                    coalesced,
                    sigGen >>
    /\ UNCHANGED monVars
    /\ UNCHANGED << built, disp, acl >>

\* the server is stopped and select is entered again without a new BotServer
ServerStop_NoRebuild ==
    /\ srv_pc = "stop"
    /\ bound' = stop(bound, srvId)
    /\ rebuilds' = rebuilds + 1
    /\ srv_pc' = "select"
    /\ UNCHANGED << srvId, startPolled, servedGen, permit, waiter, raised,
                    coalesced, sigGen >>
    /\ UNCHANGED monVars
    /\ UNCHANGED << built, main_result, disp, acl >>

\* the loop continues without stopping the server
ServerStop_NoStop ==
    /\ srv_pc = "stop"
    /\ rebuilds' = rebuilds + 1
    /\ srv_pc' = "new"
    /\ UNCHANGED << bound, srvId, startPolled, servedGen, permit, waiter,
                    raised, coalesced,
                    sigGen >>
    /\ UNCHANGED monVars
    /\ UNCHANGED << built, main_result, disp, acl >>

\* server.stop().await; continue (main.rs:84-85)
ServerStop ==
    /\ srv_pc = "stop"
    /\ bound' = stop(bound, srvId)
    /\ rebuilds' = rebuilds + 1
    /\ srv_pc' = "new"
    /\ UNCHANGED << srvId, startPolled, servedGen, permit, waiter, raised,
                    coalesced,
                    sigGen >>
    /\ UNCHANGED monVars
    /\ UNCHANGED << built, main_result, disp, acl >>

Next ==
    \/ MonitorGetIp
    \/ MonitorVerify
    \/ MonitorGenerate
    \/ MonitorRegister
    \/ MonitorNotify
    \/ MonitorSleep
    \/ ServerNew
    \/ SelectPollStart
    \/ SelectPollNotified
    \/ SelectNotified
    \/ ServerExits
    \/ ServerStop

Spec == Init /\ [][Next]_vars

\* the runtime polls the serving loop whenever it can take a step; that the
\* listener terminates by itself (ServerExits) is up to the environment
FairSpec ==
    /\ Spec
    /\ WF_vars(ServerNew)
    /\ WF_vars(SelectPollStart)
    /\ WF_vars(SelectPollNotified)
    /\ WF_vars(SelectNotified)
    /\ WF_vars(ServerStop)

\* generate_certificate(..).await of main.rs:47-52 is running: the task is
\* at the call and MonitorGenerate, its return, has not happened
Generating == mon_pc = "generate"

TypeOK ==
    /\ mon_pc \in {"get_ip", "verify", "generate", "register", "notify",
                   "sleep", "panicked"}
    /\ srv_pc \in {"new", "select", "stop", "exited"}
    /\ permit \in 0 .. 1
    /\ waiter \in {"none", "waiting", "notified"}
    /\ ticks \in 0 .. MaxTicks

\* ------------------------------------------------------------- dispatcher
\* A message text is a sequence of atoms: SP is one whitespace character, a
\* word is a run of non-whitespace characters.  Adjacent words are one longer
\* run ("hello" followed by "xyz" is the token "helloxyz"), so a token is the
\* sequence of the words of a maximal run.
SP == " "
Words == {"/ip", "/temp", "/dice", "/affirm", "hello", "xyz"}
Texts == UNION { [1 .. n -> Words \cup {SP}] : n \in 0 .. MaxTextLen }

\* str::split_whitespace, left to right: cur is the run being read, acc the
\* tokens found
RECURSIVE split(_, _, _)
split(t, cur, acc) ==
    IF t = << >>
    THEN IF cur = << >> THEN acc ELSE Append(acc, cur)
    ELSE IF Head(t) = SP
         THEN split(Tail(t), << >>,
                    IF cur = << >> THEN acc ELSE Append(acc, cur))
         ELSE split(Tail(t), Append(cur, Head(t)), acc)

\* let mut command = msg.text.split_whitespace() (telegrambot.rs:104)
split_whitespace(t) == split(t, << >>, << >>)

\* no token: None of Iterator::next
NoToken == << >>

\* the handler is chosen by the last token
command_next_Last(command) ==
    IF command = << >> THEN NoToken ELSE command[Len(command)]

\* the first command.next() (telegrambot.rs:105)
command_next(command) ==
    IF command = << >> THEN NoToken ELSE Head(command)

\* the argument is ignored
arg_next_None(command) == NoToken

\* the second command.next() (telegrambot.rs:115)
arg_next(command) ==
    IF Len(command) >= 2 THEN command[2] ELSE NoToken

\* self.weather.get_favourite_city() (telegrambot.rs:114)
get_favourite_city == << "home" >>

\* temperatures the provider can return, None when the lookup fails
NoTemp == 9999
Temps == {215, -5}

\* a reply string: a literal, or the to_string of an address, a temperature
\* or a dice roll; NoReply when there is no answer to send
literal(str) == [kind |-> "text", str |-> str, num |-> 0]
to_string(kind, v) == [kind |-> kind, str |-> "", num |-> v]
NoReply == [kind |-> "none", str |-> "", num |-> 0]

\* what the collaborators answer during one handle_message: get_ip (NoIp for
\* Err), get_temperature, the dice, get_affirmation and the sendMessage
\* request of reply
Env == [ip : IPs \cup {NoIp}, temp : Temps \cup {NoTemp}, dice : 1 .. 6,
        affirm : BOOLEAN, send : BOOLEAN]

\* the match of telegrambot.rs:105-128: the arm taken, the city asked for,
\* the collaborator that failed, and the answer (NoReply when the arm returned
\* with ? before there was one)
answer_of(command, e) ==
    LET c == command_next(command) IN
    CASE c = << "/ip" >> ->
           [handler |-> "/ip", city |-> NoToken,
            failed |-> IF e.ip = NoIp THEN "ip" ELSE "none",
            answer |-> IF e.ip # NoIp THEN to_string("ip", e.ip)
                       ELSE literal("Problem getting the ip, try again")]
      [] c = << "/temp" >> ->
           [handler |-> "/temp",
            city |-> IF arg_next(command) # NoToken THEN arg_next(command)
                     ELSE get_favourite_city,
            failed |-> IF e.temp = NoTemp THEN "weather" ELSE "none",
            answer |-> IF e.temp # NoTemp THEN to_string("f32", e.temp)
                       ELSE literal("Error getting the temp")]
      [] c = << "/dice" >> ->
           [handler |-> "/dice", city |-> NoToken, failed |-> "none",
            answer |-> to_string("dice", e.dice)]
      [] c = << "/affirm" >> ->
           [handler |-> "/affirm", city |-> NoToken,
            failed |-> IF e.affirm THEN "none" ELSE "affirm",
            answer |-> IF e.affirm THEN literal("affirmation") ELSE NoReply]
      [] c = << "hello" >> ->
           [handler |-> "hello", city |-> NoToken, failed |-> "none",
            answer |-> literal("hello back :)")]
      [] OTHER ->
           [handler |-> "default", city |-> NoToken, failed |-> "none",
            answer |-> literal("did not understand!")]

\* handle_message (telegrambot.rs:101-131): the answer, then self.reply with
\* its ?; temp is what get_temperature returned when it was called
handle_message(text, e) ==
    LET a == answer_of(split_whitespace(text), e) IN
    [pc |-> "done", text |-> text, handler |-> a.handler, city |-> a.city,
     temp |-> IF a.handler = "/temp" THEN e.temp ELSE NoTemp,
     failed |-> a.failed, answer |-> a.answer,
     replied |-> a.answer # NoReply /\ e.send,
     sendFailed |-> a.answer # NoReply /\ ~e.send,
     result |-> IF a.answer # NoReply /\ e.send THEN "Ok" ELSE "Err"]

\* one inbound message is waiting for the dispatcher
DispatchInit ==
    /\ InitMain
    /\ acl = NoPeer
    /\ disp \in { [pc |-> "recv", text |-> t] : t \in Texts }

\* the listener hands the message to bot.handle_message
HandleMessage ==
    /\ disp.pc = "recv"
    /\ \E e \in Env : disp' = handle_message(disp.text, e)
    /\ UNCHANGED << mainVars, acl >>

DispatchNext == HandleMessage

DispatchSpec == DispatchInit /\ [][DispatchNext]_vars

\* ------------------------------------------------------------- allow-list
\* A pattern and an address are strings, modelled as sequences of characters:
\* the decimal digits are 0 .. 9, and '.', '?' and '*' are the codes DOT, QM
\* and STAR.
DOT == 10
QM == 11
STAR == 12

\* get_webhook_ips (telegrambot.rs:150-163)
get_webhook_ips ==
    << << 9, 1, DOT, 1, 0, 8, DOT, 4, DOT, STAR >>,
       << 9, 1, DOT, 1, 0, 8, DOT, 5, DOT, STAR >>,
       << 9, 1, DOT, 1, 0, 8, DOT, 6, DOT, STAR >>,
       << 9, 1, DOT, 1, 0, 8, DOT, 7, DOT, STAR >>,
       << 1, 4, 9, DOT, 1, 5, 4, DOT, 1, 6, QM, DOT, STAR >>,
       << 1, 4, 9, DOT, 1, 5, 4, DOT, 1, 7, QM, DOT, STAR >>,
       << 9, 1, DOT, 1, 0, 8, DOT, 6, DOT, 6, 6 >> >>

\* the decimal digits of an octet, without leading zeros
RECURSIVE Digits(_)
Digits(n) == IF n < 10 THEN << n >> ELSE Append(Digits(n \div 10), n % 10)

\* the dotted-decimal string of the address << a, b, c, d >>
Dotted(addr) ==
    Digits(addr[1]) \o << DOT >> \o Digits(addr[2]) \o << DOT >>
        \o Digits(addr[3]) \o << DOT >> \o Digits(addr[4])

\* wildcard match of the string str against the pattern p: '?' is exactly one
\* character, '*' any run of characters, every other character itself
RECURSIVE wild_match(_, _)
wild_match(p, str) ==
    IF p = << >> THEN str = << >>
    ELSE IF Head(p) = STAR
         THEN \/ wild_match(Tail(p), str)
              \/ str # << >> /\ wild_match(p, Tail(str))
         ELSE /\ str # << >>
              /\ Head(p) = QM \/ Head(p) = Head(str)
              /\ wild_match(Tail(p), Tail(str))

\* the peer is admitted when its address matches one of the patterns
is_allowed(addr) ==
    \E i \in 1 .. Len(get_webhook_ips) :
        wild_match(get_webhook_ips[i], Dotted(addr))

\* peer addresses: the two published networks and two others, every third
\* octet, and three last octets
PeerNets == { << 91, 108 >>, << 149, 154 >>, << 91, 154 >>, << 10, 0 >> }
Peers == { << n[1], n[2], c, d >> :
             n \in PeerNets, c \in 0 .. 255, d \in {0, 66, 255} }

\* one inbound connection is waiting for the verdict
AllowInit ==
    /\ InitMain
    /\ disp = NoMessage
    /\ acl \in { [pc |-> "check", peer |-> a] : a \in Peers }

\* the listener checks the peer address against bot.get_webhook_ips()
CheckPeer ==
    /\ acl.pc = "check"
    /\ acl' = [pc |-> "done", peer |-> acl.peer,
               admitted |-> is_allowed(acl.peer)]
    /\ UNCHANGED << mainVars, disp >>

AllowNext == CheckPeer

AllowSpec == AllowInit /\ [][AllowNext]_vars

\* ------------------------------------------------------------------ claims
\* the serving loop has taken the signal and not yet stopped the server
InStop == IF srv_pc = "stop" THEN 1 ELSE 0

\* a raised signal the serving loop has not taken yet
Handed == IF waiter = "notified" THEN 1 ELSE 0

\* no signal is pending and the listener of the current BotServer is serving
Settled ==
    /\ srv_pc = "select" /\ startPolled
    /\ permit = 0 /\ waiter # "notified"

\* C1: in every reachable state at most one listener instance is bound to the
\* configured port: a new BotServer is started only after the previous one
\* terminated or was stopped.
C1_AtMostOneListener ==
    /\ Cardinality(bound) <= 1
    /\ srv_pc = "new" => bound = {}
    /\ bound \subseteq {srvId}

\* a rebuilt listener is bound, after the first one was stopped
C1_Witness == rebuilds >= 1 /\ srvId >= 2 /\ bound = {srvId}

\* C2: the restart signal is raised in a cycle only after, in that cycle, the
\* certificate was written for the current address and the platform accepted
\* the registration of that address.
C2_SignalOnlyAfterConfirmed ==
    tick.notified =>
        /\ tick.gen = "ok" /\ diskIp = tick.ip
        /\ tick.reg = "ok"
        /\ tick.outcome = "accepted"

\* C3 as stated: generate and register run exactly once per change of the
\* resolved address, and never on a tick whose address is the one resolved
\* before.
C3_OncePerAddressChange ==
    /\ tick.genCalls <= 1
    /\ tick.genCalls = 1 => tick.ip # tick.last
    /\ (mon_pc = "sleep" /\ tick.resolved /\ tick.ip # tick.last)
           => tick.genCalls = 1

\* C3 amended: in every tick generate and register run at most once each,
\* generate runs exactly when the address was resolved and the verification
\* returned Ok(false), whether or not the address changed, and register runs
\* exactly when generate succeeded.
C3_OncePerUnverifiedTick ==
    /\ tick.genCalls <= 1 /\ tick.regCalls <= 1
    /\ tick.genCalls = 1 => (tick.resolved /\ tick.verify = "false")
    /\ tick.regCalls = 1 => tick.gen = "ok"
    /\ (tick.verify = "false" /\ mon_pc # "generate") => tick.genCalls = 1
    /\ (tick.gen = "ok" /\ mon_pc # "register") => tick.regCalls = 1
    /\ (tick.gen = "fail" \/ ~tick.resolved) => tick.regCalls = 0

\* the sequence ran on a tick whose address did not change
C3_Witness ==
    /\ tick.last # NoIp /\ tick.ip = tick.last
    /\ tick.genCalls = 1 /\ tick.regCalls = 1 /\ mon_pc = "sleep"

\* C4: in a tick where is_webhook_configured returned true, neither
\* generate_certificate nor update_webhook_cert is called and no signal is
\* raised; the task only sleeps.
C4_SkipWhenConfigured ==
    tick.verify = "true" =>
        /\ tick.genCalls = 0 /\ tick.regCalls = 0 /\ ~tick.notified
        /\ mon_pc = "sleep"

\* a tick found the webhook configured
C4_Witness == tick.verify = "true" /\ mon_pc = "sleep" /\ tick.ip # NoIp

\* C5: no failure of IP resolution or of a platform call ends the monitor
\* task: after such a tick the task is still running.
C5_MonitorSurvivesFailures == mon_pc # "panicked"

\* C6: is_webhook_configured returns Ok(true) only when the platform reports
\* the address with a custom certificate, and Ok(false), never an error, for
\* every other answer of the platform.
C6_VerifyFalseForOtherAnswers ==
    (tick.verify # "none" /\ tick.resp.sent) =>
        tick.verify = IF /\ tick.resp.ok
                         /\ tick.resp.ip_address = tick.ip
                         /\ tick.resp.has_custom_certificate
                      THEN "true" ELSE "false"

C8_RebuiltOnceWithNewCertificate ==
    /\ rebuilds + InStop <= raised
    /\ (Settled /\ raised > 0) =>
          /\ rebuilds = raised - coalesced
          /\ bound = {srvId}
          /\ servedGen >= sigGen

\* one successful cycle, one rebuild, the listener serves its generation
C8_Witness ==
    /\ Settled /\ raised = 1 /\ rebuilds = 1 /\ tick.notified
    /\ sigGen = diskGen /\ servedGen = sigGen /\ srvId = 2

\* C9: a failed generate_certificate is followed by no update_webhook_cert
\* and no signal in its cycle, a failed update_webhook_cert by no signal; the
\* task then sleeps, and the tick after it runs the sequence from the start:
\* when its verification returns false it generates again, and registers
\* when the generation succeeded.
C9_FailureLeavesSignalUnset ==
    /\ tick.gen = "fail" =>
          tick.regCalls = 0 /\ ~tick.notified /\ mon_pc = "sleep"
    /\ tick.reg = "err" => ~tick.notified /\ mon_pc = "sleep"
    /\ (prev.gen = "fail" \/ prev.reg = "err") =>
          /\ ~prev.notified
          /\ tick.genCalls = 0 => mon_pc \in {"get_ip", "verify", "generate",
                                               "sleep", "panicked"}
          /\ (tick.verify = "false" /\ mon_pc # "generate")
                => tick.genCalls = 1
          /\ (tick.gen = "ok" /\ mon_pc # "register") => tick.regCalls = 1

\* the tick after a failed generation ran verify, generate and register for
\* the same address
C9_Witness ==
    /\ prev.gen = "fail" /\ tick.ip = prev.ip
    /\ tick.verify = "false" /\ tick.genCalls = 1 /\ tick.regCalls = 1

\* C10 as stated: a bound listener always serves the newest generation on disk
C10_NeverOlderThanDisk == bound # {} => servedGen = diskGen

\* C10 amended: a bound listener never serves a generation newer than the
\* disk's, and it serves an older one only while a raised signal is still to be
\* acted on, or while the newest generation has not been signalled (its cycle
\* is between the write and notify_one, or its registration failed).
C10_OlderOnlyUntilRestart ==
    /\ bound # {} => servedGen <= diskGen
    /\ (bound # {} /\ servedGen < diskGen) =>
          \/ permit = 1 \/ waiter = "notified" \/ srv_pc = "stop"
          \/ sigGen < diskGen

\* the registration failed: the listener keeps the older generation
C10_Witness ==
    /\ bound # {} /\ servedGen < diskGen /\ tick.reg = "err"
    /\ mon_pc = "sleep" /\ permit = 0 /\ waiter = "waiting"

\* C11: the serving loop never builds a listener, nor lets it read the
\* certificate files, while generate_certificate is running in the monitor
\* task.
C11_NoBuildDuringGeneration ==
    [][(srvId' # srvId \/ (startPolled' /\ ~startPolled)) => ~Generating]_vars

\* C12: when the listener terminates by itself the loop does not rebuild it
\* and main returns a failure.
C12_ExitIsFailure ==
    srv_pc = "exited" => (bound = {} /\ main_result = "Err")

\* C16 as stated: the server is stopped only when a cycle raised the signal
\* after this BotServer was built.
C16_StopOnlyAfterRaiseSinceBuilt ==
    srv_pc = "stop" => raised > built.raised

\* C16 amended: the server is stopped only for a consumed signal, one raised
\* after the BotServer was built or one still stored when it was built;
\* every stop has its own raise, and with no raise there is no stop.
C16_StopOnlyForSignal ==
    /\ srv_pc = "stop" => (raised > built.raised \/ built.pending = 1)
    /\ rebuilds + InStop <= raised - coalesced
    /\ raised = 0 => (rebuilds = 0 /\ srv_pc # "stop" /\ srvId <= 1)

\* two cycles failed (generate, then register), no signal was raised and the
\* first listener is still serving
C16_Witness ==
    /\ prev.gen = "fail" /\ tick.reg = "err" /\ mon_pc = "sleep"
    /\ raised = 0 /\ rebuilds = 0 /\ bound = {1} /\ srv_pc = "select"

\* C17: a tick whose IP resolution failed calls none of
\* is_webhook_configured, generate_certificate, update_webhook_cert and
\* notify_one; the task goes to the sleep.
C17_FailedResolutionSkipsTick ==
    (mon_pc # "get_ip" /\ ~tick.resolved) =>
        /\ mon_pc = "sleep"
        /\ tick.verify = "none" /\ tick.genCalls = 0 /\ tick.regCalls = 0
        /\ ~tick.notified
        /\ current_ip = tick.last

\* the resolution failed in the tick after one that resolved an address
C17_Witness ==
    /\ mon_pc = "sleep" /\ ~tick.resolved /\ ticks = 2 /\ prev.resolved
    /\ tick.last = prev.ip

\* C18: between two IP resolutions there is exactly one sleep, on every path
\* of the tick, and when the sleep starts the work of the tick is finished.
C18_OneSleepPerTick ==
    /\ ticks = tick.n + (IF mon_pc = "get_ip" THEN 0 ELSE 1)
    /\ mon_pc = "sleep" =>
          /\ tick.genCalls <= 1 /\ tick.regCalls <= 1
          /\ tick.verify = "false" => tick.gen # "none"
          /\ tick.gen = "ok" => tick.reg # "none"
          /\ tick.reg = "ok" => tick.notified

\* the third tick sleeps after a success, the second had failed to generate
C18_Witness ==
    /\ ticks = 3 /\ tick.n = 2 /\ mon_pc = "sleep" /\ tick.notified
    /\ prev.gen = "fail"

\* the serving loop has taken every raised signal and is stopping the server
Taken == srv_pc = "stop" /\ permit = 0 /\ waiter # "notified"

\* C20: a raised signal is not lost: a stored permit stays until the select
\* takes it, a notification handed to the waiting future stays until the
\* branch is taken, and, unless the listener terminates by itself, the
\* serving loop eventually stops the server for it.
C20_SignalNeverLost ==
    /\ [][permit = 1 => (permit' = 1 \/ srv_pc' = "stop")]_vars
    /\ [][waiter = "notified" =>
            (waiter' = "notified" \/ srv_pc' = "stop" \/ permit' = 1)]_vars
    /\ (permit = 1 \/ waiter = "notified") ~> (Taken \/ srv_pc = "exited")

\* the signal was raised while the loop was inside server.stop()
C20_Witness == permit = 1 /\ srv_pc = "stop" /\ raised = 2

\* the first whitespace-delimited token of t is the single word w
FirstTokenIs(t, w) ==
    \E i \in 1 .. Len(t) :
        /\ \A k \in 1 .. (i - 1) : t[k] = SP
        /\ t[i] = w
        /\ i = Len(t) \/ t[i + 1] = SP

\* the first tokens that have a handler of their own
Commands == {"/ip", "/temp", "/dice", "/affirm", "hello"}

\* C13: the failure of a collaborator of a command handler (IP resolver,
\* weather lookup, affirmation service) becomes a reply that is sent to the
\* chat and is not returned as Err by handle_message.
C13_CollaboratorFailureIsReplied ==
    (disp.pc = "done" /\ disp.failed # "none") =>
        /\ disp.answer # NoReply
        /\ ~disp.sendFailed => (disp.replied /\ disp.result = "Ok")

\* C14: the handler is selected by the first whitespace-delimited token
\* only: 'hello' is answered 'hello back :)', a first token that is no
\* command (or no token at all) 'did not understand!', whatever follows.
C14_FirstTokenSelects ==
    disp.pc = "done" =>
        /\ \A w \in Commands :
              FirstTokenIs(disp.text, w) => disp.handler = w
        /\ FirstTokenIs(disp.text, "hello") =>
              disp.answer = literal("hello back :)")
        /\ (\A w \in Commands : ~FirstTokenIs(disp.text, w)) =>
              (disp.handler = "default"
               /\ disp.answer = literal("did not understand!"))

\* 'hello' came first and a command after it
C14_Witness ==
    /\ disp.pc = "done" /\ disp.text = << "hello", SP, "/dice" >>
    /\ disp.answer = literal("hello back :)")

\* C15: /temp asks for the second token when there is one and for the
\* favourite city otherwise, and answers the temperature as a string, or
\* 'Error getting the temp' when the provider returned none.
C15_TempCityAndReply ==
    (disp.pc = "done" /\ FirstTokenIs(disp.text, "/temp")) =>
        LET toks == split_whitespace(disp.text) IN
        /\ disp.handler = "/temp"
        /\ disp.city = IF Len(toks) >= 2 THEN toks[2] ELSE << "home" >>
        /\ disp.answer = IF disp.temp = NoTemp
                          THEN literal("Error getting the temp")
                          ELSE [kind |-> "f32", str |-> "", num |-> disp.temp]

\* /temp with a city: the city is asked for and the temperature answered
C15_Witness ==
    /\ disp.pc = "done" /\ disp.text = << "/temp", SP, "xyz" >>
    /\ disp.city = << "xyz" >> /\ disp.temp = 215
    /\ disp.answer = [kind |-> "f32", str |-> "", num |-> 215]

\* the first 24 bits of an address, as a number
Top24(addr) == (addr[1] * 256 + addr[2]) * 256 + addr[3]

\* the address lies in 149.154.160.0/20 or in 91.108.4.0/22
InPublishedRanges(addr) ==
    \/ Top24(addr) \div 16 = Top24(<< 149, 154, 160 >>) \div 16
    \/ Top24(addr) \div 4 = Top24(<< 91, 108, 4 >>) \div 4

\* C19: an address matches one of the patterns of get_webhook_ips exactly
\* when it lies in 149.154.160.0/20 or 91.108.4.0/22.
C19_AllowListIsThePublishedRanges ==
    acl.pc = "done" => (acl.admitted <=> InPublishedRanges(acl.peer))
====
